---- MODULE Spec2Model ----
(***************************************************************************)
(* Model of flashcards.py: the two class-level dictionaries of Flashcard   *)
(* (flashcards: term -> Flashcard, definitions: definition -> term), the   *)
(* file the cards are imported from and exported to, and the interactive   *)
(* loop of main().  One step of the model runs from one call of _input()   *)
(* to the next: it reads a line, runs the code that follows it and prints  *)
(* everything up to the next prompt.                                       *)
(*                                                                         *)
(* Strings are sequences of one-character strings, so that lower(),        *)
(* strip(), split('=|=') and int() are computed character by character.    *)
(***************************************************************************)
EXTENDS Integers, Sequences, FiniteSets, TLC

VARIABLES
    flashcards,   \* Flashcard.flashcards: insertion-ordered dict, as a sequence of cards
    definitions,  \* Flashcard.definitions: function definition -> term
    files,        \* the file system: file name -> sequence of lines, or NoFile
    pc,           \* the _input() call the program is blocked in, or Exited / Crashed
    term,         \* add(): the accepted term while the definition is being read
    askList,      \* ask(): the local list `flashcards` of cards to present (by term)
    askPos,       \* ask(): position of the card being presented in askList
    inp,          \* the line read from the console in the last step
    outs,         \* the messages printed by out() during the last step
    written       \* what the last step appended to the transcript buffer `output`

vars == <<flashcards, definitions, files, pc, term, askList, askPos, inp, outs,
          written>>

----------------------------------------------------------------------------
(* Bounds of the model *)

MaxErr == 1       \* wrong guesses are only made while error_count < MaxErr
MaxAsk == 3       \* largest number typed at "How many times to ask?"

----------------------------------------------------------------------------
(* Strings *)

None == <<>>                       \* None and "" are both falsy in `if not filename`
Delim == <<"=", "|", "=">>         \* the separator '=|='
Whitespace == {" ", "\t"}

T_a  == <<"a">>
T_sa == <<" ", "a">>               \* " a": a term typed with a leading blank
D_x  == <<"x">>
D_X  == <<"X">>
D_y  == <<"y">>
F    == <<"f">>                    \* the one file name the user types

TermInputs  == {T_a, T_sa}          \* typed as a term, or as the card to remove
DefInputs   == {D_x, D_y}           \* typed as a definition
GuessInputs == {D_x, D_X, D_y}      \* typed as a guess
FileInputs  == {F}                  \* typed as a file name
ArgInputs   == {None, F}            \* --import_from / --export_to: not given, or f

\* str.lower() on the letters of the alphabet in use
LowerChar(c) ==
    CASE c = "A" -> "a"
      [] c = "X" -> "x"
      [] c = "Y" -> "y"
      [] OTHER   -> c

Lower(s) == [i \in 1..Len(s) |-> LowerChar(s[i])]

RECURSIVE LStrip(_)
LStrip(s) ==
    IF s # <<>> /\ Head(s) \in Whitespace THEN LStrip(Tail(s)) ELSE s

RECURSIVE RStrip(_)
RStrip(s) ==
    IF s # <<>> /\ s[Len(s)] \in Whitespace
    THEN RStrip(SubSeq(s, 1, Len(s) - 1)) ELSE s

\* str.strip()
Strip(s) == RStrip(LStrip(s))

\* str.split(sep): left to right, non-overlapping occurrences of sep
RECURSIVE SplitFrom(_, _, _, _)
SplitFrom(s, sep, i, start) ==
    IF i + Len(sep) - 1 > Len(s)
    THEN <<SubSeq(s, start, Len(s))>>
    ELSE IF SubSeq(s, i, i + Len(sep) - 1) = sep
         THEN <<SubSeq(s, start, i - 1)>>
                  \o SplitFrom(s, sep, i + Len(sep), i + Len(sep))
         ELSE SplitFrom(s, sep, i + 1, start)

Split(s, sep) == SplitFrom(s, sep, 1, 1)

Digits == <<"0", "1", "2", "3", "4", "5", "6", "7", "8", "9">>

\* str(n) of a non-negative integer, as the f-strings format error_count
RECURSIVE IntToStr(_)
IntToStr(n) ==
    IF n < 10 THEN <<Digits[n + 1]>>
    ELSE IntToStr(n \div 10) \o <<Digits[(n % 10) + 1]>>

DigitValue(c) == (CHOOSE d \in 1..10 : Digits[d] = c) - 1

RECURSIVE DigitsToInt(_, _)
DigitsToInt(s, acc) ==
    IF s = <<>> THEN acc
    ELSE DigitsToInt(Tail(s), 10 * acc + DigitValue(Head(s)))

ValueError == -1
IsDigit(c) == \E d \in 1..10 : Digits[d] = c

\* int(s) on unsigned decimal text: surrounding whitespace is ignored, anything
\* that is not a non-empty run of digits raises ValueError
StrToInt(s) ==
    LET t == Strip(s)
    IN  IF t # <<>> /\ \A i \in 1..Len(t) : IsDigit(t[i])
        THEN DigitsToInt(t, 0)
        ELSE ValueError

----------------------------------------------------------------------------
(* Dictionaries *)

EmptyDict == [k \in {} |-> None]
DictSet(d, k, v) == [x \in (DOMAIN d) \cup {k} |-> IF x = k THEN v ELSE d[x]]
\* del d[k] that leaves the entry in place
DictDel_KeepsEntry(d, k) == d

DictDel(d, k) == [x \in (DOMAIN d) \ {k} |-> d[x]]

\* a Flashcard instance
Card(t, d, e) == [term |-> t, definition |-> d, error_count |-> e]

Terms(fc) == {fc[i].term : i \in 1..Len(fc)}
Has(fc, t) == t \in Terms(fc)
IndexOf(fc, t) == CHOOSE i \in 1..Len(fc) : fc[i].term = t
Get(fc, t) == fc[IndexOf(fc, t)]

\* Flashcard.flashcards[t] = card: an existing key keeps its position in the
\* iteration order, a new key goes to the end
StoreSet(fc, t, card) ==
    IF Has(fc, t)
    THEN [fc EXCEPT ![IndexOf(fc, t)] = card]
    ELSE Append(fc, card)

\* del Flashcard.flashcards[t]
StoreDel(fc, t) ==
    LET k == IndexOf(fc, t)
    IN  SubSeq(fc, 1, k - 1) \o SubSeq(fc, k + 1, Len(fc))

----------------------------------------------------------------------------
(* Messages printed by out(): the format string and its arguments *)

Msg(kind, a) == [kind |-> kind, args |-> a]

Prompt       == Msg("Input the action (add, remove, import, export, ask, exit, log, hardest card, reset stats):", <<>>)
Blank        == Msg("", <<>>)
Bye          == Msg("Bye bye!", <<>>)
TheCard      == Msg("The card:", <<>>)
TheDef       == Msg("The definition of the card:", <<>>)
DuplicateTerm(t)       == Msg("The card \"{term}\" already exists. Try again:", <<t>>)
DuplicateDefinition(d) == Msg("The definition \"{definition}\" already exists. Try again:", <<d>>)
Added(t, d)  == Msg("The pair (\"{term}\":\"{definition}\") has been added.", <<t, d>>)
WhichCard    == Msg("Which card?", <<>>)
NotFound(t)  == Msg("Can't remove \"{card}\": there is no such card.", <<t>>)
Removed      == Msg("The card has been removed.", <<>>)
FileName     == Msg("File name:", <<>>)
SourceNotFound == Msg("File not found.", <<>>)
Loaded(n)    == Msg("{n} cards have been loaded.", <<n>>)
Saved(n)     == Msg("{len(Flashcard.flashcards)} cards have been saved.", <<n>>)
HowMany      == Msg("How many times to ask?", <<>>)
PrintDef(t)  == Msg("Print the definition of \"{flashcard.term}\":", <<t>>)
Correct      == Msg("Correct!", <<>>)
Wrong(d)     == Msg("Wrong. The right answer is \"{flashcard.definition}\".", <<d>>)
WrongButMatchesOtherTerm(d, t) ==
    Msg("Wrong. The right answer is \"{flashcard.definition}\", but your definition is correct for \"{Flashcard.definitions[guess]}\".", <<d, t>>)

\* the transcript buffer `output`: _input() appends the line it read, out()
\* appends the message it printed
Typed(line) == [dir |-> "in", line |-> line]
Printed(msg) == [dir |-> "out", line |-> msg]
PrintedAll(msgs) == [i \in 1..Len(msgs) |-> Printed(msgs[i])]

\* a step that reads its line with _input() and then prints msgs with out()
Echo(line, msgs) == <<Typed(line)>> \o PrintedAll(msgs)

----------------------------------------------------------------------------
(* Files *)

NoFile == [exists |-> FALSE]
FileOf(lines) == [exists |-> TRUE, lines |-> lines]

\* a file written by log(): it holds the transcript so far.  The first line
\* of every transcript is printed by main() or by the import of
\* --import_from before any command is read, and is not a record.
TranscriptFile == [exists |-> TRUE, transcript |-> TRUE]
IsTranscript(file) == "transcript" \in DOMAIN file

\* the line export() prints for one card
ExportLine(c) ==
    c.term \o Delim \o c.definition \o Delim \o IntToStr(c.error_count)

\* a loop over the cards that stops before the last one
ExportLines_SkipsLast(fc) == [i \in 1..(Len(fc) - 1) |-> ExportLine(fc[i])]

\* the body of export(): one line per card, in iteration order
ExportLines(fc) == [i \in 1..Len(fc) |-> ExportLine(fc[i])]

\* a constructor that does not record definition -> term
FlashcardInit_NoIndex(defs, t, d, e) == defs

\* Flashcard.__init__: sets the fields and records definition -> term
FlashcardInit(defs, t, d, e) == DictSet(defs, d, t)

\* the loop of import_file() from line i on; error is TRUE when a line does
\* not unpack into three fields or its third field is not an integer
RECURSIVE ImportLines(_, _, _, _, _)
ImportLines(lines, i, fc, defs, n) ==
    IF i > Len(lines)
    THEN [flashcards |-> fc, definitions |-> defs, n |-> n, error |-> FALSE]
    ELSE LET fields == Split(Strip(lines[i]), Delim)
         IN  IF Len(fields) # 3 \/ StrToInt(fields[3]) = ValueError
             THEN [flashcards |-> fc, definitions |-> defs, n |-> n, error |-> TRUE]
             ELSE ImportLines(lines, i + 1,
                      StoreSet(fc, fields[1],
                               Card(fields[1], fields[2], StrToInt(fields[3]))),
                      FlashcardInit(defs, fields[1], fields[2], StrToInt(fields[3])),
                      n + 1)

\* a file that exists before the program starts
PreFile ==
    FileOf(<< T_a \o Delim \o D_x \o Delim \o <<"1">>,
              T_a \o Delim \o D_y \o Delim \o <<"0">> >>)

----------------------------------------------------------------------------
(* The action names typed at the prompt of main() *)

A_add      == <<"a", "d", "d">>
A_remove   == <<"r", "e", "m", "o", "v", "e">>
A_import   == <<"i", "m", "p", "o", "r", "t">>
A_export   == <<"e", "x", "p", "o", "r", "t">>
A_ask      == <<"a", "s", "k">>
A_hardest  == <<"h", "a", "r", "d", "e", "s", "t", " ", "c", "a", "r", "d">>
A_reset    == <<"r", "e", "s", "e", "t", " ", "s", "t", "a", "t", "s">>
A_log      == <<"l", "o", "g">>
A_exit     == <<"e", "x", "i", "t">>
A_unknown  == <<"h", "e", "l", "p">>

\* the keys of the dispatch table `actions`
actions == {A_add, A_remove, A_import, A_export, A_ask, A_log, A_hardest, A_reset}

ActionInputs == actions \cup {A_exit, A_unknown, A_ask \o <<" ">>}
AskInputs == {IntToStr(k) : k \in 0..MaxAsk} \cup {T_a}

\* the interactive loop is running: main() is inside `while True`
Running == pc \notin {"start", "Exited", "Crashed"}

----------------------------------------------------------------------------
(* Initial state: the module has been loaded and main() is about to run.    *)
(* The two command line arguments are each read once, so they are drawn     *)
(* where main() reads them.                                                 *)

Init ==
    /\ flashcards = <<>>
    /\ definitions = EmptyDict
    /\ files \in [FileInputs -> {NoFile, PreFile}]
    /\ pc = "start"
    /\ term = None
    /\ askList = <<>>
    /\ askPos = 0
    /\ inp = None
    /\ outs = <<>>
    /\ written = <<>>

\* a handler returned to main(): out('') and the prompt of the next iteration
Return(msgs) ==
    /\ pc' = "main"
    /\ outs' = msgs \o <<Blank, Prompt>>

\* an exception other than KeyError left the handler: the process ends
Crash(msgs) ==
    /\ pc' = "Crashed"
    /\ outs' = msgs

\* an import without the os.path.exists test: open() raises FileNotFoundError
ImportBody_NoExistsTest(filename, fc, defs) ==
    IF ~files[filename].exists \/ IsTranscript(files[filename])
    THEN [flashcards |-> fc, definitions |-> defs, error |-> TRUE, outs |-> <<>>]
    ELSE LET r == ImportLines(files[filename].lines, 1, fc, defs, 0)
         IN  [flashcards |-> r.flashcards, definitions |-> r.definitions,
              error |-> r.error,
              outs |-> IF r.error THEN <<>> ELSE <<Loaded(r.n)>>]

\* import_file() once the file name is known
ImportBody(filename, fc, defs) ==
    IF ~files[filename].exists
    THEN [flashcards |-> fc, definitions |-> defs, error |-> FALSE,
          outs |-> <<SourceNotFound>>]
    ELSE IF IsTranscript(files[filename])
    THEN \* the first line does not unpack into three fields: ValueError
         [flashcards |-> fc, definitions |-> defs, error |-> TRUE, outs |-> <<>>]
    ELSE LET r == ImportLines(files[filename].lines, 1, fc, defs, 0)
         IN  [flashcards |-> r.flashcards, definitions |-> r.definitions,
              error |-> r.error,
              outs |-> IF r.error THEN <<>> ELSE <<Loaded(r.n)>>]

\* main() up to the first prompt: the import named by --import_from
main_start ==
    /\ pc = "start"
    /\ \E import_from \in ArgInputs :
         IF import_from # None
         THEN LET r == ImportBody(import_from, flashcards, definitions)
              IN  /\ flashcards' = r.flashcards
                  /\ definitions' = r.definitions
                  /\ IF r.error
                     THEN Crash(r.outs)
                     ELSE /\ pc' = "main"
                          /\ outs' = r.outs \o <<Prompt>>
         ELSE /\ pc' = "main"
              /\ outs' = <<Prompt>>
              /\ UNCHANGED <<flashcards, definitions>>
    /\ UNCHANGED <<files, term, askList, askPos, inp>>
    /\ written' = PrintedAll(outs')

\* action == 'exit': leave the loop, then the export named by --export_to
main_exit ==
    /\ pc = "main"
    /\ inp' = A_exit
    /\ pc' = "Exited"
    /\ \E export_to \in ArgInputs :
         IF export_to # None
         THEN /\ files' = [files EXCEPT ![export_to] = FileOf(ExportLines(flashcards))]
              /\ outs' = <<Bye, Saved(Len(flashcards))>>
         ELSE /\ outs' = <<Bye>>
              /\ UNCHANGED files
    /\ UNCHANGED <<flashcards, definitions, term, askList, askPos>>
    /\ written' = Echo(inp', outs')

\* actions[action] raises KeyError: continue, without the blank line
main_unknown ==
    /\ pc = "main"
    /\ \E a \in ActionInputs \ (actions \cup {A_exit}) : inp' = a
    /\ pc' = "main"
    /\ outs' = <<Prompt>>
    /\ UNCHANGED <<flashcards, definitions, files, term, askList, askPos>>
    /\ written' = Echo(inp', outs')

----------------------------------------------------------------------------
(* add() *)

add ==
    /\ pc = "main"
    /\ inp' = A_add
    /\ pc' = "add_term"
    /\ outs' = <<TheCard>>
    /\ UNCHANGED <<flashcards, definitions, files, term, askList, askPos>>
    /\ written' = Echo(inp', outs')

\* the first `while True`: a term that is a key of flashcards is refused
add_term ==
    /\ pc = "add_term"
    /\ \E t \in TermInputs :
         /\ inp' = t
         /\ IF Has(flashcards, t)
            THEN /\ outs' = <<DuplicateTerm(t)>>
                 /\ UNCHANGED <<pc, term>>
            ELSE /\ outs' = <<TheDef>>
                 /\ pc' = "add_def"
                 /\ term' = t
    /\ UNCHANGED <<flashcards, definitions, files, askList, askPos>>
    /\ written' = Echo(inp', outs')

\* the second `while True`: a definition that is a key of definitions is
\* refused; otherwise the card is created and stored
add_definition ==
    /\ pc = "add_def"
    /\ \E d \in DefInputs :
         /\ inp' = d
         /\ IF d \in DOMAIN definitions
            THEN /\ outs' = <<DuplicateDefinition(d)>>
                 /\ UNCHANGED <<pc, term, flashcards, definitions>>
            ELSE /\ definitions' = FlashcardInit(definitions, term, d, 0)
                 /\ flashcards' = StoreSet(flashcards, term, Card(term, d, 0))
                 /\ term' = None
                 /\ Return(<<Added(term, d)>>)
    /\ UNCHANGED <<files, askList, askPos>>
    /\ written' = Echo(inp', outs')

----------------------------------------------------------------------------
(* remove() *)

remove ==
    /\ pc = "main"
    /\ inp' = A_remove
    /\ pc' = "remove"
    /\ outs' = <<WhichCard>>
    /\ UNCHANGED <<flashcards, definitions, files, term, askList, askPos>>
    /\ written' = Echo(inp', outs')

\* the try/except/else of remove(); `del Flashcard.definitions[definition]`
\* raises KeyError when the key is missing, which main() swallows
remove_card ==
    /\ pc = "remove"
    /\ \E card \in TermInputs :
         /\ inp' = card
         /\ IF ~Has(flashcards, card)
            THEN /\ Return(<<NotFound(card)>>)
                 /\ UNCHANGED <<flashcards, definitions>>
            ELSE LET definition == Get(flashcards, card).definition
                 IN  /\ flashcards' = StoreDel(flashcards, card)
                     /\ IF definition \in DOMAIN definitions
                        THEN /\ definitions' = DictDel(definitions, definition)
                             /\ Return(<<Removed>>)
                        ELSE /\ UNCHANGED definitions
                             /\ pc' = "main"
                             /\ outs' = <<Prompt>>
    /\ UNCHANGED <<files, term, askList, askPos>>
    /\ written' = Echo(inp', outs')

----------------------------------------------------------------------------
(* import_file() and export() called from the loop *)

import_file ==
    /\ pc = "main"
    /\ inp' = A_import
    /\ pc' = "import"
    /\ outs' = <<FileName>>
    /\ UNCHANGED <<flashcards, definitions, files, term, askList, askPos>>
    /\ written' = Echo(inp', outs')

import_file_name ==
    /\ pc = "import"
    /\ \E filename \in FileInputs :
         /\ inp' = filename
         /\ LET r == ImportBody(filename, flashcards, definitions)
            IN  /\ flashcards' = r.flashcards
                /\ definitions' = r.definitions
                /\ IF r.error THEN Crash(r.outs) ELSE Return(r.outs)
    /\ UNCHANGED <<files, term, askList, askPos>>
    /\ written' = Echo(inp', outs')

export ==
    /\ pc = "main"
    /\ inp' = A_export
    /\ pc' = "export"
    /\ outs' = <<FileName>>
    /\ UNCHANGED <<flashcards, definitions, files, term, askList, askPos>>
    /\ written' = Echo(inp', outs')

export_name ==
    /\ pc = "export"
    /\ \E filename \in FileInputs :
         /\ inp' = filename
         /\ files' = [files EXCEPT ![filename] = FileOf(ExportLines(flashcards))]
         /\ Return(<<Saved(Len(flashcards))>>)
    /\ UNCHANGED <<flashcards, definitions, term, askList, askPos>>
    /\ written' = Echo(inp', outs')

----------------------------------------------------------------------------
(* ask() *)

ask ==
    /\ pc = "main"
    /\ inp' = A_ask
    /\ pc' = "ask_n"
    /\ outs' = <<HowMany>>
    /\ UNCHANGED <<flashcards, definitions, files, term, askList, askPos>>
    /\ written' = Echo(inp', outs')

\* list * k
RECURSIVE Repeat(_, _)
Repeat(list, k) == IF k <= 0 THEN <<>> ELSE list \o Repeat(list, k - 1)

\* the cards of the store in iteration order: list(Flashcard.flashcards.values())
Values(fc) == [i \in 1..Len(fc) |-> fc[i].term]

\* the repeated list without the truncation [0:n]
Replicated_Untruncated(fc, n) == Repeat(Values(fc), (n \div Len(fc)) + 1)

\* (list(values) * (n // len + 1))[0:n]
Replicated(fc, n) == SubSeq(Repeat(Values(fc), (n \div Len(fc)) + 1), 1, n)

\* the possible results of random.sample(list(values), n), 0 <= n <= len
Samples(fc, n) ==
    {s \in [1..n -> Terms(fc)] : \A i, j \in 1..n : s[i] = s[j] => i = j}

\* n = int(_input()) and the choice of the cards to present
ask_n ==
    /\ pc = "ask_n"
    /\ \E s \in AskInputs :
         /\ inp' = s
         /\ LET n == StrToInt(s)
            IN  IF n = ValueError
                THEN /\ Crash(<<>>)
                     /\ UNCHANGED <<askList, askPos>>
                ELSE IF n > Len(flashcards)
                THEN IF Len(flashcards) = 0
                     THEN /\ Crash(<<>>)      \* n // 0: ZeroDivisionError
                          /\ UNCHANGED <<askList, askPos>>
                     ELSE /\ askList' = Replicated(flashcards, n)
                          /\ askPos' = 1
                          /\ pc' = "ask"
                          /\ outs' = <<PrintDef(askList'[1])>>
                ELSE \E l \in Samples(flashcards, n) :
                       IF n = 0
                       THEN /\ Return(<<>>)
                            /\ UNCHANGED <<askList, askPos>>
                       ELSE /\ askList' = l
                            /\ askPos' = 1
                            /\ pc' = "ask"
                            /\ outs' = <<PrintDef(l[1])>>
    /\ UNCHANGED <<flashcards, definitions, files, term>>
    /\ written' = Echo(inp', outs')

\* what ask() prints for a guess at the definition of card
Outcome(card, guess, defs) ==
    IF Lower(guess) = Lower(card.definition)
    THEN Correct
    ELSE IF guess \in DOMAIN defs
         THEN WrongButMatchesOtherTerm(card.definition, defs[guess])
         ELSE Wrong(card.definition)

\* a comparison of guess and definition that does not fold case
Scored_CaseSensitive(card, guess) ==
    IF guess = card.definition
    THEN card
    ELSE [card EXCEPT !.error_count = @ + 1]

\* the card after the guess: error_count += 1 unless the guess matches
Scored(card, guess) ==
    IF Lower(guess) = Lower(card.definition)
    THEN card
    ELSE [card EXCEPT !.error_count = @ + 1]

\* one pass of `for flashcard in flashcards`: read the guess, judge it, then
\* present the next card or return
ask_guess ==
    /\ pc = "ask"
    /\ \E guess \in GuessInputs :
         LET flashcard == Get(flashcards, askList[askPos])
         IN  /\ Scored(flashcard, guess).error_count <= MaxErr
             /\ inp' = guess
             /\ flashcards' = StoreSet(flashcards, flashcard.term, Scored(flashcard, guess))
             /\ IF askPos < Len(askList)
                THEN /\ askPos' = askPos + 1
                     /\ outs' = <<Outcome(flashcard, guess, definitions),
                                  PrintDef(askList[askPos + 1])>>
                     /\ UNCHANGED <<pc, askList>>
                ELSE /\ askList' = <<>>
                     /\ askPos' = 0
                     /\ Return(<<Outcome(flashcard, guess, definitions)>>)
    /\ UNCHANGED <<definitions, files, term>>
    /\ written' = Echo(inp', outs')

----------------------------------------------------------------------------
(* log() *)

LogSaved == Msg("The log has been saved", <<>>)

log ==
    /\ pc = "main"
    /\ inp' = A_log
    /\ pc' = "log"
    /\ outs' = <<FileName>>
    /\ UNCHANGED <<flashcards, definitions, files, term, askList, askPos>>
    /\ written' = Echo(inp', outs')

\* the file name is read with input(), which does not write to `output`;
\* the transcript is then written to the file
log_name ==
    /\ pc = "log"
    /\ \E filename \in FileInputs :
         /\ inp' = filename
         /\ files' = [files EXCEPT ![filename] = TranscriptFile]
         /\ Return(<<LogSaved>>)
    /\ UNCHANGED <<flashcards, definitions, term, askList, askPos>>
    /\ written' = PrintedAll(outs')

----------------------------------------------------------------------------
(* hardest_card() and reset_stats() *)

NoErrors == Msg("There are no cards with errors.", <<>>)
HardestOne(t, e) ==
    Msg("The hardest card is \"{hardest_cards[0]}\". You have {max_error} errors answering it.", <<t, e>>)
HardestMany(ts, e) ==
    Msg("The hardest cards are \"...\". You have {max_error} errors answering them.", <<ts, e>>)

\* max(errors) if errors else 0
MaxError(fc) ==
    IF fc = <<>> THEN 0
    ELSE CHOOSE m \in {fc[i].error_count : i \in 1..Len(fc)} :
           \A i \in 1..Len(fc) : fc[i].error_count <= m

\* a loop that appends every term, whatever its error_count
HardestFrom_Unfiltered(fc, i, m) == [k \in 1..(Len(fc) - i + 1) |-> fc[k + i - 1].term]

\* the list hardest_cards: the terms with error_count == max_error, in
\* iteration order
RECURSIVE HardestFrom(_, _, _)
HardestFrom(fc, i, m) ==
    IF i > Len(fc) THEN <<>>
    ELSE (IF fc[i].error_count = m THEN <<fc[i].term>> ELSE <<>>)
             \o HardestFrom(fc, i + 1, m)

hardest_cards(fc) ==
    IF MaxError(fc) = 0 THEN <<>> ELSE HardestFrom(fc, 1, MaxError(fc))

hardest_card ==
    /\ pc = "main"
    /\ inp' = A_hardest
    /\ LET max_error == MaxError(flashcards)
           hardest == hardest_cards(flashcards)
       IN  IF max_error = 0
           THEN Return(<<NoErrors>>)
           ELSE IF Len(hardest) = 1
                THEN Return(<<HardestOne(hardest[1], max_error)>>)
                ELSE Return(<<HardestMany(hardest, max_error)>>)
    /\ UNCHANGED <<flashcards, definitions, files, term, askList, askPos>>
    /\ written' = Echo(inp', outs')

StatsReset == Msg("Card statistics have been reset.", <<>>)

\* a reset that misses the last card of the store
reset_stats_MissesLast ==
    /\ pc = "main"
    /\ inp' = A_reset
    /\ flashcards' = [i \in 1..Len(flashcards) |->
                         IF i = Len(flashcards) THEN flashcards[i]
                         ELSE [flashcards[i] EXCEPT !.error_count = 0]]
    /\ Return(<<StatsReset>>)
    /\ UNCHANGED <<definitions, files, term, askList, askPos>>
    /\ written' = Echo(inp', outs')

reset_stats ==
    /\ pc = "main"
    /\ inp' = A_reset
    /\ flashcards' = [i \in 1..Len(flashcards) |-> [flashcards[i] EXCEPT !.error_count = 0]]
    /\ Return(<<StatsReset>>)
    /\ UNCHANGED <<definitions, files, term, askList, askPos>>
    /\ written' = Echo(inp', outs')

----------------------------------------------------------------------------

Next ==
    \/ main_start
    \/ main_exit
    \/ main_unknown
    \/ add
    \/ add_term
    \/ add_definition
    \/ remove
    \/ remove_card
    \/ import_file
    \/ import_file_name
    \/ export
    \/ export_name
    \/ ask
    \/ ask_n
    \/ ask_guess
    \/ log
    \/ log_name
    \/ hardest_card
    \/ reset_stats

Spec == Init /\ [][Next]_vars

TypeOK ==
    /\ pc \in {"start", "main", "add_term", "add_def", "remove", "import",
               "export", "ask_n", "ask", "log", "Exited", "Crashed"}
    /\ \A i \in 1..Len(flashcards) : flashcards[i].error_count \in Nat
    /\ \A i, j \in 1..Len(flashcards) :
         flashcards[i].term = flashcards[j].term => i = j

----------------------------------------------------------------------------
(* Vocabulary of the properties *)

Definitions(fc) == {fc[i].definition : i \in 1..Len(fc)}
Triples(fc) == {<<fc[i].term, fc[i].definition, fc[i].error_count>> : i \in 1..Len(fc)}
KindOf(m) == m.kind
FirstOut(kind) == outs # <<>> /\ outs[1].kind = kind

\* C1: after any sequence of operations no two flashcards of the store have
\* the same term and no two have the same definition.
C1_UniqueTermAndDefinition ==
    \A i, j \in 1..Len(flashcards) :
        (flashcards[i].term = flashcards[j].term
            \/ flashcards[i].definition = flashcards[j].definition) => i = j

\* C2: between operations the definition -> term mapping holds d -> t exactly
\* when the store holds a card with term t and definition d.
C2_DerivedMappingConsistent ==
    pc = "main" =>
        \A d \in DOMAIN definitions \cup Definitions(flashcards) :
            \A t \in Terms(flashcards) \cup {definitions[k] : k \in DOMAIN definitions} :
                (d \in DOMAIN definitions /\ definitions[d] = t)
                    <=> (\E i \in 1..Len(flashcards) :
                            flashcards[i].term = t /\ flashcards[i].definition = d)

\* C3: add refuses a term that is the term of a card of the store with
\* DuplicateTerm and a definition that is the definition of a card of the
\* store with DuplicateDefinition; a refusal changes neither mapping nor any
\* error count, and the same prompt is read again.
C3_AddRejectsDuplicates ==
    [][ /\ (pc = "add_term" /\ Has(flashcards, inp'))
            => /\ outs' = <<DuplicateTerm(inp')>>
               /\ pc' = "add_term"
               /\ UNCHANGED <<flashcards, definitions>>
        /\ (pc = "add_def" /\ inp' \in Definitions(flashcards))
            => /\ outs' = <<DuplicateDefinition(inp')>>
               /\ pc' = "add_def"
               /\ UNCHANGED <<flashcards, definitions>> ]_vars

\* C4: a successful add creates exactly one new card, with error_count 0,
\* puts term into the primary mapping and definition -> term into the
\* secondary mapping, and leaves every other card and entry as it was.
C4_AddCreatesOneCard ==
    [][ (pc = "add_def" /\ pc' = "main")
            => /\ term \notin Terms(flashcards)
               /\ Len(flashcards') = Len(flashcards) + 1
               /\ \A i \in 1..Len(flashcards) : flashcards'[i] = flashcards[i]
               /\ flashcards'[Len(flashcards')] =
                      [term |-> term, definition |-> inp', error_count |-> 0]
               /\ inp' \notin DOMAIN definitions
               /\ DOMAIN definitions' = DOMAIN definitions \cup {inp'}
               /\ definitions'[inp'] = term
               /\ \A d \in DOMAIN definitions : definitions'[d] = definitions[d] ]_vars

\* an add has just succeeded on a store that already held a card
C4_Witness ==
    /\ pc = "main"
    /\ FirstOut(KindOf(Added(None, None)))
    /\ Len(flashcards) = 2
    /\ flashcards[2].term = outs[1].args[1]
    /\ flashcards[2].definition = inp

\* the card ask() is presenting, and its position in the store
Presented == Get(flashcards, askList[askPos])
PresentedIndex == IndexOf(flashcards, askList[askPos])

\* C5: each presentation adds exactly 1 to the presented card's error_count
\* when the guess differs from its definition ignoring case and nothing when
\* it does not; no other error_count, term, definition or mapping entry
\* changes.
C5_GuessScoresPresentedCardOnly ==
    [][ pc = "ask"
            => /\ Len(flashcards') = Len(flashcards)
               /\ \A j \in 1..Len(flashcards) :
                    j # PresentedIndex => flashcards'[j] = flashcards[j]
               /\ flashcards'[PresentedIndex].term = Presented.term
               /\ flashcards'[PresentedIndex].definition = Presented.definition
               /\ flashcards'[PresentedIndex].error_count =
                      IF Lower(inp') = Lower(Presented.definition)
                      THEN Presented.error_count
                      ELSE Presented.error_count + 1
               /\ definitions' = definitions ]_vars

\* a guess that differs from the definition only by case has just been
\* accepted for a card that already had an error, next to an untouched card
C5_Witness ==
    /\ pc = "main"
    /\ inp = D_X
    /\ outs[1] = Correct
    /\ Len(flashcards) = 2
    /\ \E i \in 1..2 : /\ flashcards[i].definition = D_x
                       /\ flashcards[i].error_count = 1

\* C6: when the guess mismatches the presented card's definition, the outcome
\* is WrongButMatchesOtherTerm(correct_definition, other_term) exactly when
\* the guess equals the definition of another card of the store, other_term
\* being the term of that card; otherwise it is Wrong(correct_definition).
C6_OtherTermIsAnotherCardOfTheStore ==
    [][ (pc = "ask" /\ Lower(inp') # Lower(Presented.definition))
            => LET others == {k \in 1..Len(flashcards) :
                                 /\ k # PresentedIndex
                                 /\ flashcards[k].definition = inp'}
               IN  IF others # {}
                   THEN \E k \in others :
                          outs'[1] = WrongButMatchesOtherTerm(Presented.definition,
                                                              flashcards[k].term)
                   ELSE outs'[1] = Wrong(Presented.definition) ]_vars

\* C7: a quiz of n > 0 cards on an empty store is a recoverable error: the
\* store is unchanged and the loop stays Running, waiting for the next command.
C7_QuizOnEmptyStoreIsRecoverable ==
    [][ (pc = "ask_n" /\ flashcards = <<>> /\ StrToInt(inp') > 0)
            => /\ pc' = "main"
               /\ UNCHANGED <<flashcards, definitions>> ]_vars

\* C8: remove of an absent term reports NotFound and leaves both mappings
\* unchanged; remove of a present term deletes that term from the primary
\* mapping and that card's definition from the secondary mapping, every other
\* entry of both mappings staying as it was.
C8_RemoveDeletesExactlyOneCard ==
    [][ pc = "remove"
            => IF inp' \notin Terms(flashcards)
               THEN /\ outs'[1] = NotFound(inp')
                    /\ pc' = "main"
                    /\ UNCHANGED <<flashcards, definitions>>
               ELSE LET k == IndexOf(flashcards, inp')
                        d == flashcards[k].definition
                    IN  /\ Len(flashcards') = Len(flashcards) - 1
                        /\ inp' \notin Terms(flashcards')
                        /\ \A i \in 1..Len(flashcards') :
                             flashcards'[i] = flashcards[IF i < k THEN i ELSE i + 1]
                        /\ DOMAIN definitions' = (DOMAIN definitions) \ {d}
                        /\ \A x \in DOMAIN definitions' :
                             definitions'[x] = definitions[x] ]_vars

\* a card has just been removed from a store of two cards
C8_Witness ==
    /\ pc = "main"
    /\ FirstOut(KindOf(Removed))
    /\ Len(flashcards) = 1
    /\ inp \notin Terms(flashcards)
    /\ DOMAIN definitions = {flashcards[1].definition}

\* s does not contain the delimiter
NoDelimiter(s) == Len(Split(s, Delim)) = 1

\* C9: when no term and no definition of the store contains the delimiter,
\* importing the file export has just written into an empty store gives the
\* same set of (term, definition, error_count) triples, and import counts as
\* many cards as export reported.
C9_ExportImportRoundTrip ==
    (/\ pc = "main"
     /\ FirstOut(KindOf(Saved(0)))
     /\ \A i \in 1..Len(flashcards) : /\ NoDelimiter(flashcards[i].term)
                                      /\ NoDelimiter(flashcards[i].definition))
        => LET r == ImportLines(files[inp].lines, 1, <<>>, EmptyDict, 0)
           IN  /\ ~r.error
               /\ Triples(r.flashcards) = Triples(flashcards)
               /\ r.n = outs[1].args[1]

\* C10: a quiz of n cards on a store of c > 0 cards presents n cards; when
\* n > c the i-th presentation (from 0) is the card at position i mod c of
\* the iteration order, so every card appears; when 0 < n <= c the n cards
\* are pairwise distinct cards of the store.
C10_QuizSelection ==
    [][ /\ (pc = "ask_n" /\ pc' = "ask")
            => LET n == StrToInt(inp')
                   c == Len(flashcards)
               IN  /\ c > 0 /\ n > 0
                   /\ Len(askList') = n
                   /\ askPos' = 1
                   /\ n > c =>
                        /\ \A i \in 0..(n - 1) :
                             askList'[i + 1] = flashcards[(i % c) + 1].term
                        /\ \A k \in 1..c :
                             \E i \in 1..n : askList'[i] = flashcards[k].term
                   /\ n <= c =>
                        /\ \A i \in 1..n : askList'[i] \in Terms(flashcards)
                        /\ \A i, j \in 1..n : askList'[i] = askList'[j] => i = j
        /\ (pc = "ask_n" /\ flashcards # <<>> /\ StrToInt(inp') > 0) => pc' = "ask"
        /\ pc' = "ask" => outs'[Len(outs')] = PrintDef(askList'[askPos'])
        /\ (pc = "ask" /\ pc' = "ask")
            => askList' = askList /\ askPos' = askPos + 1
        /\ pc = "ask" => (pc' = "main" <=> askPos = Len(askList)) ]_vars

\* the third card of a quiz of 3 on a store of 2 is being presented
C10_Witness ==
    /\ pc = "ask"
    /\ Len(flashcards) = 2
    /\ Len(askList) = 3
    /\ askPos = 3
    /\ askList[3] = flashcards[1].term

\* the records of a source as the file format gives them: one per line, the
\* fields separated by the delimiter
Records(lines) == [i \in 1..Len(lines) |-> Split(lines[i], Delim)]

\* every line is term, definition, error_count with a decimal error_count
WellFormed(file) ==
    /\ file.exists
    /\ ~IsTranscript(file)
    /\ \A i \in 1..Len(file.lines) :
         /\ Len(Records(file.lines)[i]) = 3
         /\ StrToInt(Records(file.lines)[i][3]) # ValueError

\* the last record of recs with term t
LastRecord(recs, t) ==
    recs[CHOOSE k \in 1..Len(recs) :
            /\ recs[k][1] = t
            /\ \A j \in (k + 1)..Len(recs) : recs[j][1] # t]

\* C11: after the import of a well-formed source, every term of the source
\* has in the store the definition and error_count of the last record with
\* that term, every card whose term is not in the source is unchanged, and
\* the reported count is the number of records read.
C11_ImportLastWriteWins ==
    [][ (pc = "import" /\ WellFormed(files[inp']))
            => LET recs == Records(files[inp'].lines)
                   sourceTerms == {recs[i][1] : i \in 1..Len(recs)}
               IN  /\ \A t \in sourceTerms :
                        \E j \in 1..Len(flashcards') :
                            flashcards'[j] =
                                [term |-> t,
                                 definition |-> LastRecord(recs, t)[2],
                                 error_count |-> StrToInt(LastRecord(recs, t)[3])]
                   /\ \A j \in 1..Len(flashcards) :
                        flashcards[j].term \notin sourceTerms
                            => \E k \in 1..Len(flashcards') :
                                   flashcards'[k] = flashcards[j]
                   /\ outs'[1] = Loaded(Len(recs)) ]_vars

\* C12: reset_stats sets every error_count to 0 and changes no term, no
\* definition and no mapping entry; hardest_card called right after it
\* reports that there are no cards with errors.
C12_ResetStatsClearsErrors ==
    [][ /\ (pc = "main" /\ inp' = A_reset)
            => /\ Len(flashcards') = Len(flashcards)
               /\ \A i \in 1..Len(flashcards) :
                    /\ flashcards'[i].term = flashcards[i].term
                    /\ flashcards'[i].definition = flashcards[i].definition
                    /\ flashcards'[i].error_count = 0
               /\ definitions' = definitions
               /\ pc' = "main"
        /\ (pc = "main" /\ FirstOut(KindOf(StatsReset)) /\ inp' = A_hardest)
            => outs'[1] = NoErrors ]_vars

\* the statistics of a store of two cards have just been reset; the file
\* still shows the error the first card had when it was exported
C12_Witness ==
    /\ pc = "main"
    /\ inp = A_reset
    /\ FirstOut(KindOf(StatsReset))
    /\ Len(flashcards) = 2
    /\ WellFormed(files[F])
    /\ \E i \in 1..Len(files[F].lines) :
         Records(files[F].lines)[i] =
             <<flashcards[1].term, flashcards[1].definition, IntToStr(1)>>

\* the terms a message of hardest_card names
Reported(m) ==
    IF m.kind = KindOf(NoErrors) THEN <<>>
    ELSE IF m.kind = KindOf(HardestOne(None, 0)) THEN <<m.args[1]>>
    ELSE m.args[1]

C14_OnlyExitLeavesRunning ==
    [][ /\ (pc = "main" /\ inp' \notin actions \cup {A_exit})
            => /\ UNCHANGED <<flashcards, definitions, files>>
               /\ pc' = "main"
               /\ outs' = <<Prompt>>
        /\ (Running /\ ~Running')
            => (pc = "main" /\ inp' = A_exit /\ pc' = "Exited") ]_vars

\* C15: every line read from the user and every line printed to the user is
\* appended to the transcript buffer, in the order it occurred, in every
\* command, the file-name prompt of log included.
C15_TranscriptRecordsEveryLine ==
    [][ LET console == IF pc = "start"
                       THEN PrintedAll(outs')
                       ELSE <<Typed(inp')>> \o PrintedAll(outs')
        IN  /\ Len(written') = Len(console)
            /\ \A i \in 1..Len(console) :
                 /\ written'[i].dir = console[i].dir
                 /\ written'[i].line = console[i].line ]_vars

\* C16: an import from a source that does not exist reports SourceNotFound,
\* loads nothing, leaves both mappings and every error count unchanged, and
\* the loop goes on.
C16_ImportOfMissingSource ==
    [][ /\ (pc = "import" /\ ~files[inp'].exists)
            => /\ outs' = <<SourceNotFound, Blank, Prompt>>
               /\ UNCHANGED <<flashcards, definitions, files>>
               /\ pc' = "main"
        /\ (pc = "start" /\ \A f \in FileInputs : ~files[f].exists)
            => /\ outs' \in {<<SourceNotFound, Prompt>>, <<Prompt>>}
               /\ UNCHANGED <<flashcards, definitions, files>>
               /\ pc' = "main" ]_vars

\* an import of a missing file has just been reported, the store holding a card
C16_Witness ==
    /\ pc = "main"
    /\ inp = F
    /\ outs = <<SourceNotFound, Blank, Prompt>>
    /\ ~files[F].exists
    /\ Len(flashcards) = 1

\* C17: add accepts every definition that no card of the store has; a
\* definition is refused only if a present card holds it.
C17_AddAcceptsFreeDefinition ==
    [][ (pc = "add_def" /\ inp' \notin Definitions(flashcards))
            => /\ pc' = "main"
               /\ \E i \in 1..Len(flashcards') :
                    /\ flashcards'[i].term = term
                    /\ flashcards'[i].definition = inp' ]_vars

\* C18: remove of a term of the store completes normally, with the card
\* deleted and the success message printed; the loop repeats the prompt
\* without a message and without the blank line only when the typed action
\* name is not in the dispatch table.
C18_RemoveCompletesNormally ==
    [][ /\ (pc = "remove" /\ inp' \in Terms(flashcards))
            => /\ inp' \notin Terms(flashcards')
               /\ outs' = <<Removed, Blank, Prompt>>
               /\ pc' = "main"
        /\ (pc # "start" /\ pc' = "main" /\ outs' = <<Prompt>>)
            => (pc = "main" /\ inp' \notin actions) ]_vars

\* lines holds one record per card of fc, in order
HoldsEachCardOnce(lines, fc) ==
    /\ Len(lines) = Len(fc)
    /\ \A i \in 1..Len(fc) :
         Split(lines[i], Delim)
             = <<fc[i].term, fc[i].definition, IntToStr(fc[i].error_count)>>

\* C19: export, hardest_card and log leave both mappings and every card
\* unchanged; export writes each card of the store once and reports as many
\* cards as the store holds.
C19_ReadOnlyOperations ==
    [][ /\ ((pc = "main" /\ inp' \in {A_export, A_hardest, A_log})
              \/ pc \in {"export", "log"})
            => UNCHANGED <<flashcards, definitions>>
        /\ pc = "export"
            => /\ files'[inp'].exists /\ ~IsTranscript(files'[inp'])
               /\ HoldsEachCardOnce(files'[inp'].lines, flashcards)
               /\ outs'[1] = Saved(Len(flashcards))
        /\ (pc = "main" /\ inp' = A_exit)
            => /\ UNCHANGED <<flashcards, definitions>>
               /\ files' # files
                    => /\ \A f \in FileInputs :
                            files'[f] # files[f]
                                => /\ ~IsTranscript(files'[f])
                                   /\ HoldsEachCardOnce(files'[f].lines, flashcards)
               /\ Len(outs') = 2 => outs'[2] = Saved(Len(flashcards)) ]_vars

\* a store of two cards has just been exported
C19_Witness ==
    /\ pc = "main"
    /\ inp = F
    /\ outs[1] = Saved(2)
    /\ Len(flashcards) = 2
    /\ WellFormed(files[F])
    /\ Len(files[F].lines) = 2

====
